---- MODULE Spec2Model ----
(***************************************************************************)
(* EchoClip: the subtitle-generation job (generate_srt), its task-state    *)
(* bookkeeping, the audio-location resolution and normalisation, and the   *)
(* signed-URL host rewrite of MinioService.get_file_url, the object key    *)
(* generators and the bucket and object calls of MinioService.             *)
(*                                                                         *)
(* Spec        : concurrent / redelivered executions of generate_srt over  *)
(*               one ProcessingTask table.                                 *)
(* SpecResolve : _get_audio_file_from_db over bounded database contents.   *)
(* SpecNorm    : the object-name normalisation over bounded keys.          *)
(* SpecUrl     : get_file_url over bounded endpoints and signed URLs.      *)
(* SpecKeys    : the key generators over bounded owners and identities.    *)
(* SpecStore   : ensure_bucket_exists, upload_file, delete_file and        *)
(*               file_exists against one backend that may fail.            *)
(***************************************************************************)
EXTENDS Integers, Sequences, FiniteSets, TLC

VARIABLES
    tasks,   \* the ProcessingTask table: a sequence of rows, row id = index
    ex,      \* per execution of generate_srt: its locals and position
    faults,  \* number of store faults injected so far
    arg,     \* input of the pure function under check (SpecResolve/Norm/Url)
    res,     \* its result; in SpecStore the last call and what it returned
    store    \* the object storage backend: the bucket, its policy, its objects

vars == <<tasks, ex, faults, arg, res, store>>

\* ------------------------------------------------------------------ bounds

\* concurrent or redelivered executions of generate_srt
NumExec == 2
\* store (database) faults injected in one behaviour
MaxFaults == 1

Execs == 1 .. NumExec

\* ------------------------------------------------------------- enumerations

None == "None"

\* ProcessingTaskStatus
RUNNING == "running"
SUCCESS == "success"
FAILURE == "failure"

\* job ids the task-queue transport hands out; None: no id (self.request.id)
JobIds == {"job-1"}
RequestIds == JobIds \cup {None}

\* the literal placeholder of line 137
UnknownId == "unknown"

\* messages of the status calls (ASCII renderings of the literals)
MsgStart == "start generating subtitles"
MsgDownload == "downloading audio file"
MsgTranscribe == "generating subtitles"
MsgDone == "subtitles generated"
MsgNoAudio == "no audio file available, extract audio first"
MsgNoUrl == "cannot get audio file URL"

\* ------------------------------------------------------- strings (as chars)
\* A Python str is modelled as a sequence of one-character strings.
\* Intermediate results are bound once, as the element x of a singleton
\* {e}, and the result read back with Only: Only({F(x) : x \in {e}}).

Only(S) == CHOOSE x \in S : TRUE

\* least and greatest element of a set of positions, 0 for the empty set
MinOf(S) ==
    Only({IF T = {} THEN 0 ELSE CHOOSE i \in T : \A j \in T : i <= j : T \in {S}})
MaxOf(S) ==
    Only({IF T = {} THEN 0 ELSE CHOOSE i \in T : \A j \in T : j <= i : T \in {S}})

\* s.startswith(p)
StartsWith(s, p) == Len(p) <= Len(s) /\ SubSeq(s, 1, Len(p)) = p

\* s.find(sub, start): first index i >= start (1-based) where sub occurs, 0 if none
FindFrom(s, sub, start) ==
    MinOf({i \in start .. (Len(s) - Len(sub) + 1) :
              SubSeq(s, i, i + Len(sub) - 1) = sub})

Find(s, sub) == FindFrom(s, sub, 1)

\* s.rfind(sub): last index where sub occurs, 0 if none
RFind(s, sub) ==
    MaxOf({i \in 1 .. (Len(s) - Len(sub) + 1) :
              SubSeq(s, i, i + Len(sub) - 1) = sub})

\* sub in s
Contains(s, sub) == Find(s, sub) # 0

\* s[i:] with i the 1-based index of the first character kept
From(s, i) == SubSeq(s, i, Len(s))

\* s.strip(c): leading and trailing occurrences of the character c removed
Strip(s, c) ==
    Only({IF keep = {} THEN <<>> ELSE SubSeq(s, MinOf(keep), MaxOf(keep)) :
             keep \in {{i \in 1 .. Len(s) : s[i] # c}}})

\* s.split(c, 1): at most one split, at the first occurrence of c
Split1(s, c) ==
    Only({IF i = 0 THEN <<s>> ELSE <<SubSeq(s, 1, i - 1), From(s, i + 1)>> :
             i \in {Find(s, <<c>>)}})

\* <<head, tail>> of s around the first occurrence of c; tail empty if none
Partition(s, c) ==
    Only({IF i = 0 THEN <<s, <<>>>> ELSE <<SubSeq(s, 1, i - 1), From(s, i + 1)>> :
             i \in {Find(s, <<c>>)}})

Letters ==
    {"a", "b", "c", "d", "e", "f", "g", "h", "i", "j", "k", "l", "m",
     "n", "o", "p", "q", "r", "s", "t", "u", "v", "w", "x", "y", "z"}
Digits == {"0", "1", "2", "3", "4", "5", "6", "7", "8", "9"}
\* urllib.parse.scheme_chars
SchemeChars == Letters \cup Digits \cup {"+", "-", "."}

HTTP == <<"h", "t", "t", "p">>
HTTPS == <<"h", "t", "t", "p", "s">>
LOCALHOST == <<"l", "o", "c", "a", "l", "h", "o", "s", "t">>

\* ------------------------------------------------------ urllib.parse (model)
\* urlsplit followed by urlparse's split of the params off the last segment

\* urlsplit: <<scheme, rest>>; a scheme is a letter followed by scheme
\* characters up to the first ':'
SplitScheme(url) ==
    Only({IF /\ colon > 1
             /\ url[1] \in Letters
             /\ \A j \in 1 .. (colon - 1) : url[j] \in SchemeChars
          THEN <<SubSeq(url, 1, colon - 1), From(url, colon + 1)>>
          ELSE <<<<>>, url>> :
             colon \in {Find(url, <<":">>)}})

\* urlsplit: <<netloc, rest>>; after '//' the netloc runs to the first of / ? #
SplitNetloc(u) ==
    IF StartsWith(u, <<"/", "/">>)
    THEN Only({IF d = 0 THEN <<From(u, 3), <<>>>>
               ELSE <<SubSeq(u, 3, d - 1), From(u, d)>> :
                  d \in {MinOf({i \in 3 .. Len(u) : u[i] \in {"/", "?", "#"}})}})
    ELSE <<<<>>, u>>

\* _splitparams(url): <<path, params>>
SplitParams(url) ==
    Only({Only({IF i = 0 THEN <<url, <<>>>>
                ELSE <<SubSeq(url, 1, i - 1), From(url, i + 1)>> :
                   i \in {IF slash # 0 THEN FindFrom(url, <<";">>, slash)
                          ELSE Find(url, <<";">>)}}) :
             slash \in {RFind(url, <<"/">>)}})

urlparse(url) ==
    Only({Only({Only({Only({Only({
        [scheme |-> a[1], netloc |-> b[1], path |-> p[1],
         params |-> p[2], query |-> q[2], fragment |-> f[2]] :
            p \in {IF Contains(q[1], <<";">>) THEN SplitParams(q[1])
                   ELSE <<q[1], <<>>>>}}) :
            q \in {Partition(f[1], "?")}}) :
            f \in {Partition(b[2], "#")}}) :
            b \in {SplitNetloc(a[2])}}) :
            a \in {SplitScheme(url)}})

\* urlunsplit's netloc rule: '//' netloc, and a '/' before a relative path
WithNetloc(scheme, netloc, u) ==
    IF netloc # <<>> \/ (scheme # <<>> /\ ~StartsWith(u, <<"/", "/">>))
    THEN <<"/", "/">> \o netloc
         \o (IF u # <<>> /\ u[1] # "/" THEN <<"/">> \o u ELSE u)
    ELSE u

\* urlunparse((scheme, netloc, path, params, query, fragment))
urlunparse(scheme, netloc, path, params, query, fragment) ==
    (IF scheme # <<>> THEN scheme \o <<":">> ELSE <<>>)
    \o WithNetloc(scheme, netloc,
                  IF params # <<>> THEN path \o <<";">> \o params ELSE path)
    \o (IF query # <<>> THEN <<"?">> \o query ELSE <<>>)
    \o (IF fragment # <<>> THEN <<"#">> \o fragment ELSE <<>>)

\* ParseResult.port: the digits after the first ':' of the host part (the
\* netloc after its last '@'), empty for no port
PortDigits(netloc) ==
    Only({Only({IF c = 0 THEN <<>> ELSE From(hostinfo, c + 1) :
                   c \in {Find(hostinfo, <<":">>)}}) :
             hostinfo \in {From(netloc, RFind(netloc, <<"@">>) + 1)}})

\* Optional[str]: the value None of a str-valued expression
NoStr == <<"<None>">>

\* bool(s) of an Optional[str]
TruthyStr(s) == s # NoStr /\ s # <<>>

\* ----------------------------------------------- minio_client.get_file_url

\* settings.minio_bucket_name
minio_bucket_name == <<"b">>

\* the port of the documented default endpoint, line 162
DefaultPort == <<"9", "0", "0", "0">>
\* the endpoint that is never rewritten, line 156
DefaultEndpoint == LOCALHOST \o <<":">> \o DefaultPort

\* client.presigned_get_object of a client built on minio_endpoint (lines 17-23):
\* <scheme>://<endpoint>/<bucket>/<object>?<signature query>
presigned_get_object(minio_endpoint, minio_secure, object_name, query) ==
    (IF minio_secure THEN HTTPS ELSE HTTP) \o <<":", "/", "/">> \o minio_endpoint
        \o <<"/">> \o minio_bucket_name \o <<"/">> \o object_name
        \o <<"?">> \o query

\* str(parsed.port or 9000): int() drops leading zeros, 0 and no port give 9000
PortOr9000(netloc) ==
    Only({Only({IF nz = 0 THEN DefaultPort ELSE From(d, nz) :
                   nz \in {MinOf({i \in 1 .. Len(d) : d[i] # "0"})}}) :
             d \in {PortDigits(netloc)}})

\* the netloc the rewrite puts in, lines 158-163
NewNetloc(minio_endpoint, parsed) ==
    IF Contains(minio_endpoint, <<":">>)
    THEN minio_endpoint
    ELSE minio_endpoint \o <<":">> \o PortOr9000(parsed.netloc)

\* the condition of line 156
RewriteCondition(minio_endpoint, parsed) ==
    minio_endpoint # DefaultEndpoint /\ Contains(parsed.netloc, LOCALHOST)

\* mutant of get_file_url: the rebuilt URL loses its query string
get_file_url_noQuery(minio_endpoint, url) ==
    Only({IF RewriteCondition(minio_endpoint, parsed)
          THEN urlunparse(parsed.scheme, NewNetloc(minio_endpoint, parsed),
                          parsed.path, parsed.params, <<>>, parsed.fragment)
          ELSE url :
             parsed \in {urlparse(url)}})

\* _get_url after the backend returned url, lines 153-176
get_file_url(minio_endpoint, url) ==
    Only({IF RewriteCondition(minio_endpoint, parsed)
          THEN urlunparse(parsed.scheme, NewNetloc(minio_endpoint, parsed),
                          parsed.path, parsed.params, parsed.query,
                          parsed.fragment)
          ELSE url :
             parsed \in {urlparse(url)}})

\* ------------------------------------------ minio_client: object addressing

DigitChars == <<"0", "1", "2", "3", "4", "5", "6", "7", "8", "9">>

\* str(n) of an int n >= 0, as f"{n}" renders it
RECURSIVE Dec(_)
Dec(n) ==
    IF n < 10 THEN <<DigitChars[n + 1]>>
    ELSE Dec(n \div 10) \o <<DigitChars[(n % 10) + 1]>>

\* f"{n:03d}" of an int n >= 0: zero-padded to at least three digits
Dec03(n) ==
    Only({IF Len(d) >= 3 THEN d
          ELSE IF Len(d) = 2 THEN <<"0">> \o d
          ELSE <<"0", "0">> \o d :
             d \in {Dec(n)}})

\* a Python str literal as a sequence of characters
USERS == <<"u", "s", "e", "r", "s", "/">>
PROJECTS == <<"/", "p", "r", "o", "j", "e", "c", "t", "s", "/">>

\* f"users/{user_id}/projects/{project_id}", the head of every key
OwnerPrefix(user_id, project_id) ==
    USERS \o Dec(user_id) \o PROJECTS \o Dec(project_id)

\* line 214
generate_object_name(user_id, project_id, filename) ==
    OwnerPrefix(user_id, project_id)
        \o <<"/", "v", "i", "d", "e", "o", "s", "/">> \o filename

\* mutant of generate_audio_object_name: the format is not part of the key
generate_audio_object_name_noFormat(user_id, project_id, video_id, audio_format) ==
    OwnerPrefix(user_id, project_id)
        \o <<"/", "a", "u", "d", "i", "o", "/">> \o video_id
        \o <<".", "w", "a", "v">>

\* line 218
generate_audio_object_name(user_id, project_id, video_id, audio_format) ==
    OwnerPrefix(user_id, project_id)
        \o <<"/", "a", "u", "d", "i", "o", "/">> \o video_id
        \o <<".">> \o audio_format

\* line 222
generate_thumbnail_object_name(user_id, project_id, video_id) ==
    OwnerPrefix(user_id, project_id)
        \o <<"/", "t", "h", "u", "m", "b", "n", "a", "i", "l", "s", "/">>
        \o video_id \o <<".", "j", "p", "g">>

\* line 226
generate_split_audio_object_name(user_id, project_id, video_id, segment_index) ==
    OwnerPrefix(user_id, project_id)
        \o <<"/", "s", "p", "l", "i", "t", "s", "/">> \o video_id
        \o <<"/", "s", "e", "g", "m", "e", "n", "t", "_">>
        \o Dec03(segment_index) \o <<".", "w", "a", "v">>

\* line 230
generate_srt_object_name(user_id, project_id, video_id) ==
    OwnerPrefix(user_id, project_id)
        \o <<"/", "s", "u", "b", "t", "i", "t", "l", "e", "s", "/">>
        \o video_id \o <<".", "s", "r", "t">>

\* line 234
generate_asr_json_object_name(user_id, project_id, video_id) ==
    OwnerPrefix(user_id, project_id)
        \o <<"/", "a", "s", "r", "_", "r", "e", "s", "u", "l", "t", "s", "/">>
        \o video_id
        \o <<"_", "a", "s", "r", "_", "r", "e", "s", "u", "l", "t",
             ".", "j", "s", "o", "n">>

\* ------------------------------------------- minio_client: the backend calls

\* the backend: whether the bucket exists, whether it carries the policy, and
\* the keys of its objects
NoStore == [bucket |-> FALSE, policy |-> FALSE, objects |-> {}]

\* what a call of the minio client comes back with: "ok", an S3Error with
\* one of these codes (an error response of the backend), or an exception
\* that is not an S3Error (the backend could not be reached)
S3ErrorCodes == {"NoSuchKey", "NoSuchBucket", "AccessDenied"}
TransportErrors == {"MaxRetryError"}

\* a call that was not made
NotCalled == "-"

\* results of the service's methods (Python True, False, None; a raise)
PyTrue == "True"
PyFalse == "False"
Raises == "raise"
RaisedStr == <<"<raise>">>

\* `except S3Error`
IsS3Error(reply) == reply \in S3ErrorCodes

\* _exists, lines 201-206, on the reply of stat_object
file_exists(reply) ==
    IF reply = "ok" THEN PyTrue
    ELSE IF IsS3Error(reply) THEN PyFalse
    ELSE Raises

\* _upload, lines 75-86, on the reply of fput_object: <<store, result>>,
\* the result an Optional[str] (RaisedStr: the call raised)
upload_file(st, object_name, reply) ==
    IF reply = "ok"
    THEN <<[st EXCEPT !.objects = @ \cup {object_name}], object_name>>
    ELSE IF IsS3Error(reply) THEN <<st, NoStr>>
    ELSE <<st, RaisedStr>>

\* _delete, lines 187-193, on the reply of remove_object: <<store, result>>
delete_file(st, object_name, reply) ==
    IF reply = "ok"
    THEN <<[st EXCEPT !.objects = @ \ {object_name}], PyTrue>>
    ELSE IF IsS3Error(reply) THEN <<st, PyFalse>>
    ELSE <<st, Raises>>

\* mutant of ensure_bucket_exists: a failed policy application fails the call
ensure_bucket_exists_strict(st, r_exists, r_make, r_policy) ==
    IF r_exists \notin {PyTrue, PyFalse}
    THEN <<st, IF IsS3Error(r_exists) THEN PyFalse ELSE Raises,
           <<r_exists, NotCalled, NotCalled>>>>
    ELSE IF r_exists = PyFalse /\ r_make # "ok"
    THEN <<st, IF IsS3Error(r_make) THEN PyFalse ELSE Raises,
           <<r_exists, r_make, NotCalled>>>>
    ELSE <<[st EXCEPT !.bucket = TRUE,
                      !.policy = IF r_policy = "ok" THEN TRUE ELSE @],
           IF r_policy = "ok" THEN PyTrue
           ELSE IF IsS3Error(r_policy) THEN PyFalse ELSE Raises,
           <<r_exists, IF r_exists = PyFalse THEN r_make ELSE NotCalled,
             r_policy>>>>

\* _ensure_bucket, lines 29-62, on the replies of bucket_exists (True, False
\* or an error), make_bucket and set_bucket_policy:
\* <<store, result, replies of the calls made>>.
\* An S3Error of the first two returns False and another exception of them
\* propagates; every exception of set_bucket_policy is caught at line 53
ensure_bucket_exists(st, r_exists, r_make, r_policy) ==
    IF r_exists \notin {PyTrue, PyFalse}
    THEN <<st, IF IsS3Error(r_exists) THEN PyFalse ELSE Raises,
           <<r_exists, NotCalled, NotCalled>>>>
    ELSE IF r_exists = PyFalse /\ r_make # "ok"
    THEN <<st, IF IsS3Error(r_make) THEN PyFalse ELSE Raises,
           <<r_exists, r_make, NotCalled>>>>
    ELSE <<[st EXCEPT !.bucket = TRUE,
                      !.policy = IF r_policy = "ok" THEN TRUE ELSE @],
           PyTrue,
           <<r_exists, IF r_exists = PyFalse THEN r_make ELSE NotCalled,
             r_policy>>>>

\* ------------------------------------------- srt_task: object-name normalise

\* lines 165-175: the location is not bucket-prefixed
ObjectNameOfUnprefixed(audio_minio_path) ==
    IF Contains(audio_minio_path, HTTP)
    THEN Only({IF Len(path_parts) > 1 THEN path_parts[2] ELSE audio_minio_path :
                  path_parts \in {Split1(Strip(urlparse(audio_minio_path).path, "/"),
                                         "/")}})
    ELSE audio_minio_path

\* lines 158-175: audio_minio_path -> object_name
NormalizeObjectName(audio_minio_path) ==
    IF StartsWith(audio_minio_path, minio_bucket_name \o <<"/">>)
    THEN From(audio_minio_path, Len(minio_bucket_name \o <<"/">>) + 1)
    ELSE ObjectNameOfUnprefixed(audio_minio_path)

\* --------------------------------------- srt_task: _get_audio_file_from_db

EXTRACT_AUDIO == "extract_audio"
GENERATE_SRT == "generate_srt"

\* a JSON column: None, or a dict given as its set of <<key, value>> items
NullJson == [isNone |-> TRUE, items |-> {}]
Dict(items) == [isNone |-> FALSE, items |-> items]
\* bool(d)
TruthyJson(d) == ~d.isNone /\ d.items # {}
\* d.get(k)
Get(d, k) ==
    IF \E it \in d.items : it[1] = k
    THEN (CHOOSE it \in d.items : it[1] = k)[2]
    ELSE NoStr

\* mutant of SelectedTasks: the status filter of line 83 is missing
SelectedTasks_anyStatus(db, video_id) ==
    {t \in db.tasks : /\ t.video_id = video_id
                      /\ t.task_type = EXTRACT_AUDIO}

\* the rows the statement of lines 80-84 selects
SelectedTasks(db, video_id) ==
    {t \in db.tasks : /\ t.video_id = video_id
                      /\ t.task_type = EXTRACT_AUDIO
                      /\ t.status = SUCCESS}

\* the rows result.first() may return under ORDER BY completed_at DESC
\* (rows of equal completed_at come in an order the database chooses)
FirstRows(db, video_id) ==
    {t \in SelectedTasks(db, video_id) :
        \A u \in SelectedTasks(db, video_id) : u.completed_at <= t.completed_at}

\* lines 62-94 with `first` the row result.first() returned (FirstRows; any
\* value when there is none); the returned audio_path, NoStr for None
get_audio_file_from_db(db, video_id, first) ==
    IF ~db.video THEN NoStr
    ELSE LET audio_path ==
                IF TruthyJson(db.processing_metadata)
                   /\ TruthyStr(Get(db.processing_metadata, "audio_path"))
                THEN Get(db.processing_metadata, "audio_path")
                ELSE IF FirstRows(db, video_id) # {} /\ TruthyJson(first.output_data)
                     THEN Get(first.output_data, "minio_path")
                     ELSE NoStr
         IN IF TruthyStr(audio_path) THEN audio_path ELSE NoStr

\* ----------------------------------------------- the ProcessingTask table

\* the task's video_id argument (a str, line 26)
VideoId == "42"

\* mutant of NewTask: the row is inserted pending and not started
NewTask_pending(celery_task_id) ==
    [celery_task_id |-> celery_task_id,
     input_data |-> "direct_audio",
     status |-> "pending",
     progress |-> 0,
     message |-> "",
     output_data |-> "",
     started_at |-> FALSE,
     completed_at |-> 0]

\* ProcessingTask(...) of lines 42-52
NewTask(celery_task_id) ==
    [celery_task_id |-> celery_task_id,
     input_data |-> "direct_audio",
     status |-> RUNNING,
     progress |-> 0,
     message |-> "",
     output_data |-> "",
     started_at |-> TRUE,
     completed_at |-> 0]

\* ids of the rows filter(celery_task_id == id) selects
RowsOf(table, id) == {i \in 1 .. Len(table) : table[i].celery_task_id = id}

\* .first(): the lowest row id, 0 for None
FirstRow(table, id) ==
    IF RowsOf(table, id) = {} THEN 0
    ELSE CHOOSE i \in RowsOf(table, id) : \A j \in RowsOf(table, id) : i <= j

\* the uniqueness constraint on celery_task_id (NULLs are never equal)
UniqueViolation(table, id) == id # None /\ RowsOf(table, id) # {}

\* state_manager.update_celery_task_status_sync: the row of that id gets the
\* status and the meta's progress and message; no row: ValueError, no change
update_celery_task_status_sync(table, id, status, progress, message) ==
    LET i == FirstRow(table, id)
    IN IF i = 0 THEN table
       ELSE [table EXCEPT ![i].status = status,
                          ![i].progress = progress,
                          ![i].message = message]

\* state_manager.update_task_status_sync: the row task_id gets the status,
\* progress, message and output_data, and its completed_at is written
update_task_status_sync(table, task_id, status, progress, message, output_data) ==
    [table EXCEPT ![task_id].status = status,
                  ![task_id].progress = progress,
                  ![task_id].message = message,
                  ![task_id].output_data = output_data,
                  ![task_id].completed_at = @ + 1]

\* --------------------------------------------------- generate_srt: helpers

NoErr == [kind |-> "", msg |-> ""]
NoCall == [id |-> None, status |-> "", progress |-> 0, message |-> ""]

\* f"{error_type}: {error_msg}", lines 269 and 274
FormatError(kind, msg) == kind \o ": " \o msg

\* what the engine's success result carries as minio_path
SrtKey == "users/7/projects/3/subtitles/42.srt"
\* the keys an engine run may return (the engine chooses the key)
EngineKeys == {SrtKey, "users/7/projects/3/subtitles/42-1.srt"}

\* the audio location the store holds in the job model
PathMeta == minio_bucket_name \o <<"/", "k">>
PathTask == PathMeta

\* database contents _get_audio_file_from_db meets in the job model
MainDbs ==
    {[video |-> FALSE, processing_metadata |-> NullJson, tasks |-> {}],
     [video |-> TRUE, processing_metadata |-> NullJson, tasks |-> {}],
     [video |-> TRUE, processing_metadata |-> Dict({<<"audio_path", PathMeta>>}),
      tasks |-> {}],
     [video |-> TRUE, processing_metadata |-> Dict({}),
      tasks |-> {[video_id |-> VideoId, task_type |-> EXTRACT_AUDIO,
                  status |-> SUCCESS, completed_at |-> 1,
                  output_data |-> Dict({<<"minio_path", PathTask>>})]}]}

IdleExec ==
    [pc |-> "idle", phase |-> "none",
     request_id |-> None, celery_task_id |-> None,
     create_processing_task |-> TRUE,
     call |-> NoCall, log |-> <<>>, ensure_ok |-> FALSE,
     resolved |-> FALSE, audio_info |-> NoStr, object_name |-> NoStr, temp_dir |-> FALSE,
     url_requested |-> FALSE, downloaded |-> FALSE, engine_invoked |-> FALSE,
     engine_result |-> "",
     err |-> NoErr, result |-> "", raised |-> ""]

\* mutant of BeginCall: the sub-task test of lines 99-101 is missing
BeginCall_always(x, site, id, status, progress, message) ==
    [x EXCEPT !.pc = site,
              !.call = [id |-> id, status |-> status, progress |-> progress,
                        message |-> message],
              !.log = Append(@, [id |-> id, status |-> status,
                                 progress |-> progress, message |-> message]),
              !.phase = "lookup"]

\* a call of _update_task_status at the site `site`: lines 96-101 decide
\* whether it is skipped (sub-task) or goes on to the store
BeginCall(x, site, id, status, progress, message) ==
    LET c == [id |-> id, status |-> status, progress |-> progress,
              message |-> message]
    IN [x EXCEPT !.pc = site,
                 !.call = c,
                 !.log = Append(@, c),
                 !.phase = IF x.create_processing_task THEN "lookup" ELSE "skip"]

\* mutant of EnterHandler: the scratch directory outlives the with block
EnterHandler_keepsDir(x, kind, msg) ==
    BeginCall([x EXCEPT !.err = [kind |-> kind, msg |-> msg]],
              "failure_handler", x.request_id, FAILURE, 0, FormatError(kind, msg))

\* the except clause of lines 255-270: the with block is left (the scratch
\* directory goes), the error is classified and FAILURE/0 is reported under
\* self.request.id
EnterHandler(x, kind, msg) ==
    BeginCall([x EXCEPT !.temp_dir = FALSE,
                        !.err = [kind |-> kind, msg |-> msg]],
              "failure_handler", x.request_id, FAILURE, 0, FormatError(kind, msg))

CanFault == faults < MaxFaults

\* ------------------------------------------------ _update_task_status steps

\* mutant of TaskMissing: the test of line 40 inverted (`if task`)
TaskMissing_inverted(table, id) == FirstRow(table, id) # 0

\* `if not task`, line 40
TaskMissing(table, id) == FirstRow(table, id) = 0

\* lines 99-101: the call made as a sub-task returns at once
SkipStatus(e) ==
    /\ ex[e].phase = "skip"
    /\ ex' = [ex EXCEPT ![e].phase = "done"]
    /\ UNCHANGED <<tasks, faults, arg, res, store>>

\* _ensure_processing_task_exists, lines 31-40 and 57-60: the lookup.
\* ensure_ok is the function's return value (False after an exception), which
\* line 105 ignores
EnsureLookup(e) ==
    /\ ex[e].phase = "lookup"
    /\ \/ /\ CanFault
          /\ faults' = faults + 1
          /\ ex' = [ex EXCEPT ![e].phase = "update", ![e].ensure_ok = FALSE]
       \/ /\ faults' = faults
          /\ ex' = [ex EXCEPT ![e].phase =
                        IF TaskMissing(tasks, ex[e].call.id) THEN "insert"
                        ELSE "update",
                              ![e].ensure_ok = TRUE]
    /\ UNCHANGED <<tasks, arg, res, store>>

\* _ensure_processing_task_exists, lines 41-56 and 58-60: db.add and
\* db.commit; a constraint violation or a store failure is swallowed
EnsureInsert(e) ==
    /\ ex[e].phase = "insert"
    /\ \/ /\ CanFault
          /\ faults' = faults + 1
          /\ tasks' = tasks
          /\ ex' = [ex EXCEPT ![e].phase = "update", ![e].ensure_ok = FALSE]
       \/ /\ faults' = faults
          /\ tasks' = IF UniqueViolation(tasks, ex[e].call.id) THEN tasks
                      ELSE Append(tasks, NewTask(ex[e].call.id))
          /\ ex' = [ex EXCEPT ![e].phase = "update",
                              ![e].ensure_ok = ~UniqueViolation(tasks, ex[e].call.id)]
    /\ UNCHANGED <<arg, res, store>>

\* lines 107-123: the update; ValueError and every other exception are caught
UpdateCeleryStatus(e) ==
    /\ ex[e].phase = "update"
    /\ \/ /\ CanFault
          /\ faults' = faults + 1
          /\ tasks' = tasks
       \/ /\ faults' = faults
          /\ tasks' = update_celery_task_status_sync(
                          tasks, ex[e].call.id, ex[e].call.status,
                          ex[e].call.progress, ex[e].call.message)
    /\ ex' = [ex EXCEPT ![e].phase = "done"]
    /\ UNCHANGED <<arg, res, store>>

\* ------------------------------------------------------ generate_srt steps

\* a delivery of the job, lines 134-139; deliveries are numbered in the order
\* in which their executions start
Start(e) ==
    /\ ex[e].pc = "idle"
    /\ IF e = 1 THEN TRUE ELSE ex[e - 1].pc # "idle"
    /\ \E cpt \in BOOLEAN :
          LET id == IF ex[e].request_id = None THEN UnknownId
                    ELSE ex[e].request_id
          IN ex' = [ex EXCEPT ![e] =
                       BeginCall([@ EXCEPT !.celery_task_id = id,
                                           !.create_processing_task = cpt],
                                 "running10", id, RUNNING, 10, MsgStart)]
    /\ UNCHANGED <<tasks, faults, arg, res, store>>

\* mutant of AfterResolve: no location does not stop the job
AfterResolve_noStop(x, audio) ==
    BeginCall([x EXCEPT !.resolved = TRUE, !.audio_info = audio,
                        !.temp_dir = TRUE],
              "running30", x.celery_task_id, RUNNING, 30, MsgDownload)

\* lines 143-154: `if not audio_info` reports FAILURE/0 (the raise of 147
\* follows the report); otherwise the scratch directory is made and RUNNING/30
\* is reported
AfterResolve(x, audio) ==
    IF audio = NoStr
    THEN BeginCall([x EXCEPT !.resolved = TRUE], "failure_noaudio",
                   x.celery_task_id, FAILURE, 0, MsgNoAudio)
    ELSE BeginCall([x EXCEPT !.resolved = TRUE, !.audio_info = audio,
                             !.temp_dir = TRUE],
                   "running30", x.celery_task_id, RUNNING, 30, MsgDownload)

\* lines 140-155: update_state, then _get_audio_file_from_db; no location:
\* FAILURE/0 is reported; a location: the scratch directory is made and
\* RUNNING/30 is reported
ResolveAudio(e) ==
    /\ ex[e].pc = "running10" /\ ex[e].phase = "done"
    /\ \/ /\ ex' = [ex EXCEPT ![e] =
                       EnterHandler(@, "BackendError", "result backend down")]
          /\ faults' = faults
       \/ /\ CanFault
          /\ faults' = faults + 1
          /\ ex' = [ex EXCEPT ![e] =
                       EnterHandler(@, "OperationalError", "database down")]
       \/ /\ faults' = faults
          /\ \E db \in MainDbs :
               \E first \in IF FirstRows(db, VideoId) = {} THEN {NullJson}
                            ELSE FirstRows(db, VideoId) :
                  ex' = [ex EXCEPT ![e] =
                      AfterResolve(@, get_audio_file_from_db(db, VideoId, first))]
    /\ UNCHANGED <<tasks, arg, res, store>>

\* line 147: raise Exception(error_msg), caught at 255
RaiseNoAudio(e) ==
    /\ ex[e].pc = "failure_noaudio" /\ ex[e].phase = "done"
    /\ ex' = [ex EXCEPT ![e] = EnterHandler(@, "Exception", MsgNoAudio)]
    /\ UNCHANGED <<tasks, faults, arg, res, store>>

\* lines 155-179: update_state, the normalisation, the signed URL
GetUrl(e) ==
    /\ ex[e].pc = "running30" /\ ex[e].phase = "done"
    /\ \/ ex' = [ex EXCEPT ![e] =
                    EnterHandler(@, "BackendError", "result backend down")]
       \/ \E got \in BOOLEAN :
            LET x == [ex[e] EXCEPT
                        !.object_name = NormalizeObjectName(ex[e].audio_info),
                        !.url_requested = TRUE]
            IN ex' = [ex EXCEPT ![e] =
                         IF got THEN [x EXCEPT !.pc = "download"]
                         ELSE EnterHandler(x, "Exception", MsgNoUrl)]
    /\ UNCHANGED <<tasks, faults, arg, res, store>>

\* mutant of Download: the progress reported after the download is 30 again
Download_again30(e) ==
    /\ ex[e].pc = "download"
    /\ \E ok \in BOOLEAN :
          ex' = [ex EXCEPT ![e] =
                    IF ok
                    THEN BeginCall([@ EXCEPT !.downloaded = TRUE], "running70",
                                   @.celery_task_id, RUNNING, 30, MsgTranscribe)
                    ELSE EnterHandler(@, "HTTPError", "404 Client Error")]
    /\ UNCHANGED <<tasks, faults, arg, res, store>>

\* lines 181-189: the download into the scratch file, then RUNNING/70
Download(e) ==
    /\ ex[e].pc = "download"
    /\ \E ok \in BOOLEAN :
          ex' = [ex EXCEPT ![e] =
                    IF ok
                    THEN BeginCall([@ EXCEPT !.downloaded = TRUE], "running70",
                                   @.celery_task_id, RUNNING, 70, MsgTranscribe)
                    ELSE EnterHandler(@, "HTTPError", "404 Client Error")]
    /\ UNCHANGED <<tasks, faults, arg, res, store>>

\* what generate_srt_from_audio may do: raise, report a failure (with or
\* without an 'error' entry), or report success
EngineOutcomes == {"raise", "error", "noerror", "success"}

\* mutant of Transcribe: a failure result of the engine is taken for success
Transcribe_ignoresFailure(e) ==
    /\ ex[e].pc = "running70" /\ ex[e].phase = "done"
    /\ \/ ex' = [ex EXCEPT ![e] =
                    EnterHandler(@, "BackendError", "result backend down")]
       \/ \E o \in EngineOutcomes, key \in EngineKeys :
            LET x == [ex[e] EXCEPT !.engine_invoked = TRUE]
            IN ex' = [ex EXCEPT ![e] =
                 CASE o = "raise" -> EnterHandler(x, "TimeoutError", "timeout")
                   [] o = "error" -> [x EXCEPT !.pc = "complete",
                                               !.phase = "none"]
                   [] o = "noerror" -> EnterHandler(x, "Exception", "Unknown error")
                   [] o = "success" -> [x EXCEPT !.pc = "complete",
                                                 !.phase = "none",
                                                 !.engine_result = key]]
    /\ UNCHANGED <<tasks, faults, arg, res, store>>

\* lines 190-201 and 252-253: update_state, the engine, its result; a success
\* result carries the key the engine stored the subtitles under
Transcribe(e) ==
    /\ ex[e].pc = "running70" /\ ex[e].phase = "done"
    /\ \/ ex' = [ex EXCEPT ![e] =
                    EnterHandler(@, "BackendError", "result backend down")]
       \/ \E o \in EngineOutcomes, key \in EngineKeys :
            LET x == [ex[e] EXCEPT !.engine_invoked = TRUE]
            IN ex' = [ex EXCEPT ![e] =
                 CASE o = "raise" -> EnterHandler(x, "TimeoutError", "timeout")
                   [] o = "error" -> EnterHandler(x, "Exception", "asr failed")
                   [] o = "noerror" -> EnterHandler(x, "Exception", "Unknown error")
                   [] o = "success" -> [x EXCEPT !.pc = "complete",
                                                 !.phase = "none",
                                                 !.engine_result = key]]
    /\ UNCHANGED <<tasks, faults, arg, res, store>>

\* mutant of CompleteTask: a store failure in the block is not caught
CompleteTask_raises(e) ==
    /\ ex[e].pc = "complete"
    /\ \/ /\ CanFault
          /\ faults' = faults + 1
          /\ tasks' = tasks
          /\ ex' = [ex EXCEPT ![e] =
                       EnterHandler(@, "OperationalError", "database down")]
       \/ /\ faults' = faults
          /\ LET i == FirstRow(tasks, ex[e].celery_task_id)
             IN tasks' = IF i = 0 THEN tasks
                         ELSE update_task_status_sync(
                                  tasks, i, SUCCESS, 100, MsgDone,
                                  ex[e].engine_result)
          /\ ex' = [ex EXCEPT ![e] =
                       BeginCall(@, "success100",
                                 @.celery_task_id, SUCCESS, 100, MsgDone)]
    /\ UNCHANGED <<arg, res, store>>

\* lines 203-239: the row is looked up and, found, completed with SUCCESS/100
\* and the output; then _update_task_status(SUCCESS, 100) is called. A store
\* failure in the block is caught at 236 and skips that call
CompleteTask(e) ==
    /\ ex[e].pc = "complete"
    /\ \/ /\ CanFault
          /\ faults' = faults + 1
          /\ tasks' = tasks
          /\ ex' = [ex EXCEPT ![e].pc = "state_success", ![e].phase = "done"]
       \/ /\ faults' = faults
          /\ LET i == FirstRow(tasks, ex[e].celery_task_id)
             IN tasks' = IF i = 0 THEN tasks
                         ELSE update_task_status_sync(
                                  tasks, i, SUCCESS, 100, MsgDone,
                                  ex[e].engine_result)
          /\ ex' = [ex EXCEPT ![e] =
                       BeginCall(@, "success100",
                                 @.celery_task_id, SUCCESS, 100, MsgDone)]
    /\ UNCHANGED <<arg, res, store>>

\* lines 241-251: update_state(SUCCESS) and the return of the result
ReturnCompleted(e) ==
    /\ ex[e].pc \in {"success100", "state_success"} /\ ex[e].phase = "done"
    /\ \/ ex' = [ex EXCEPT ![e] =
                    EnterHandler(@, "BackendError", "result backend down")]
       \/ ex' = [ex EXCEPT ![e].pc = "returned",
                           ![e].phase = "none",
                           ![e].temp_dir = FALSE,
                           ![e].result = "completed"]
    /\ UNCHANGED <<tasks, faults, arg, res, store>>

\* mutant of Reraise: the error raised carries the message without its kind
Reraise_msgOnly(e) ==
    /\ ex[e].pc = "failure_handler" /\ ex[e].phase = "done"
    /\ ex' = [ex EXCEPT ![e].pc = "raised",
                        ![e].phase = "none",
                        ![e].raised = ex[e].err.msg]
    /\ UNCHANGED <<tasks, faults, arg, res, store>>

\* line 274: raise Exception(f"{error_type}: {error_msg}")
Reraise(e) ==
    /\ ex[e].pc = "failure_handler" /\ ex[e].phase = "done"
    /\ ex' = [ex EXCEPT ![e].pc = "raised",
                        ![e].phase = "none",
                        ![e].raised = FormatError(ex[e].err.kind, ex[e].err.msg)]
    /\ UNCHANGED <<tasks, faults, arg, res, store>>

Init ==
    /\ tasks = <<>>
    /\ \E rid \in RequestIds :
          ex = [e \in Execs |-> [IdleExec EXCEPT !.request_id = rid]]
    /\ faults = 0
    /\ arg = <<>>
    /\ res = <<>>
    /\ store = NoStore

Next ==
    \E e \in Execs :
        \/ Start(e)
        \/ SkipStatus(e)
        \/ EnsureLookup(e)
        \/ EnsureInsert(e)
        \/ UpdateCeleryStatus(e)
        \/ ResolveAudio(e)
        \/ RaiseNoAudio(e)
        \/ GetUrl(e)
        \/ Download(e)
        \/ Transcribe(e)
        \/ CompleteTask(e)
        \/ ReturnCompleted(e)
        \/ Reraise(e)

Spec == Init /\ [][Next]_vars

\* ------------------------------------------------------------ SpecResolve
\* _get_audio_file_from_db applied to every database content within bounds.

\* rows of the ProcessingTask table in one database content; completed_at
\* ranges over as many instants
MaxTasks == 2

PathA == <<"a">>
PathB == <<"b", "/", "a">>

OutputDatas ==
    {NullJson, Dict({<<"srt_filename", PathA>>}),
     Dict({<<"minio_path", PathA>>}), Dict({<<"minio_path", PathB>>})}

\* rows the statement selects, and rows that differ from them in the video,
\* the task type or the status
TaskUniverse ==
    [video_id : {VideoId}, task_type : {EXTRACT_AUDIO}, status : {SUCCESS},
     completed_at : 1 .. MaxTasks, output_data : OutputDatas]
    \cup [video_id : {"7"}, task_type : {EXTRACT_AUDIO}, status : {SUCCESS},
          completed_at : 1 .. MaxTasks, output_data : {Dict({<<"minio_path", PathB>>})}]
    \cup [video_id : {VideoId}, task_type : {GENERATE_SRT}, status : {SUCCESS},
          completed_at : 1 .. MaxTasks, output_data : {Dict({<<"minio_path", PathB>>})}]
    \cup [video_id : {VideoId}, task_type : {EXTRACT_AUDIO}, status : {FAILURE},
          completed_at : 1 .. MaxTasks, output_data : {Dict({<<"minio_path", PathB>>})}]

RECURSIVE TaskSets(_)
TaskSets(n) ==
    IF n = 0 THEN {{}}
    ELSE TaskSets(n - 1) \cup {T \cup {t} : T \in TaskSets(n - 1), t \in TaskUniverse}

\* Video.processing_metadata
Metadatas ==
    {NullJson, Dict({}), Dict({<<"duration", PathA>>}),
     Dict({<<"audio_path", <<>>>>}), Dict({<<"audio_path", PathMeta>>})}

\* a video row with its metadata, or no video row; the task rows of the table
ResolveDbs ==
    [video : {TRUE}, processing_metadata : Metadatas, tasks : TaskSets(MaxTasks)]
    \cup [video : {FALSE}, processing_metadata : {NullJson},
          tasks : TaskSets(MaxTasks)]

InitResolve ==
    /\ tasks = <<>>
    /\ ex = [e \in Execs |-> IdleExec]
    /\ faults = 0
    /\ arg \in ResolveDbs
    /\ res = <<>>
    /\ store = NoStore

\* one call of _get_audio_file_from_db(video_id)
Resolve ==
    /\ res = <<>>
    /\ \E first \in IF FirstRows(arg, VideoId) = {} THEN {NullJson}
                    ELSE FirstRows(arg, VideoId) :
          res' = <<get_audio_file_from_db(arg, VideoId, first)>>
    /\ UNCHANGED <<tasks, ex, faults, arg, store>>

NextResolve == Resolve

SpecResolve == InitResolve /\ [][NextResolve]_vars

\* --------------------------------------------------------------- SpecNorm
\* the normalisation applied to the three representations of every key.

\* length of a storage key
MaxKeyLen == 5

KeyChars == {"h", "t", "p", "b", "/"}

\* keys: non-empty segments separated by '/'
Keys ==
    {k \in UNION {[1 .. n -> KeyChars] : n \in 1 .. MaxKeyLen} :
        /\ k[1] # "/" /\ k[Len(k)] # "/"
        /\ \A i \in 1 .. (Len(k) - 1) : ~(k[i] = "/" /\ k[i + 1] = "/")}

\* the three representations of the key k
BucketPrefixed(k) == minio_bucket_name \o <<"/">> \o k
BareKey(k) == k
FullUrl(k) ==
    HTTP \o <<":", "/", "/", "m", ":">> \o DefaultPort \o <<"/">>
         \o minio_bucket_name \o <<"/">> \o k

InitNorm ==
    /\ tasks = <<>>
    /\ ex = [e \in Execs |-> IdleExec]
    /\ faults = 0
    /\ arg \in Keys
    /\ res = <<>>
    /\ store = NoStore

\* lines 158-175 on one representation of the key
Normalize ==
    /\ res = <<>>
    /\ \E location \in {BucketPrefixed(arg), BareKey(arg), FullUrl(arg)} :
          res' = <<location, NormalizeObjectName(location)>>
    /\ UNCHANGED <<tasks, ex, faults, arg, store>>

NextNorm == Normalize

SpecNorm == InitNorm /\ [][NextNorm]_vars

\* ---------------------------------------------------------------- SpecUrl
\* get_file_url for every endpoint setting and signed URL within bounds.

\* settings.minio_endpoint
Endpoints ==
    {DefaultEndpoint,
     LOCALHOST,
     LOCALHOST \o <<":", "9", "0", "0", "1">>,
     <<"m", "i", "n", "i", "o">> \o <<":">> \o DefaultPort,
     <<"m", "i", "n", "i", "o">>,
     <<"s", "3", ".">> \o LOCALHOST \o <<".", "i", "o">>,
     <<"s", "3", ".">> \o LOCALHOST \o <<".", "i", "o", ":", "8", "0", "0", "0">>}

ObjectNames ==
    {<<"k">>, <<"a", "/", "k", ".", "s">>, LOCALHOST \o <<"/", "k">>}

\* the signature query of the signed URL
Queries ==
    {<<"X", "=", "1">>,
     <<"X", "=", "1", "&", "S", "=", "a", "b">>,
     <<"H", "=", "h", "o", "s", "t", "&", "S", "=", "9">>}

InitUrl ==
    /\ tasks = <<>>
    /\ ex = [e \in Execs |-> IdleExec]
    /\ faults = 0
    /\ arg \in [minio_endpoint : Endpoints, minio_secure : BOOLEAN,
                object_name : ObjectNames, query : Queries]
    /\ res = <<>>
    /\ store = NoStore

\* _get_url, lines 141-179: the backend signs a URL and it is returned,
\* rewritten or not; or the backend raises S3Error and None is returned
GetFileUrl ==
    /\ res = <<>>
    /\ \/ \E url \in {presigned_get_object(arg.minio_endpoint, arg.minio_secure,
                                          arg.object_name, arg.query)} :
             res' = <<url, get_file_url(arg.minio_endpoint, url)>>
       \/ res' = <<NoStr, NoStr>>
    /\ UNCHANGED <<tasks, ex, faults, arg, store>>

NextUrl == GetFileUrl

SpecUrl == InitUrl /\ [][NextUrl]_vars

\* --------------------------------------------------------------- SpecKeys
\* the key generators applied to two artifact identities of one owner and
\* category.

\* video ids: the decimal renderings of the integer ids 0 .. MaxVideoId
MaxVideoId == 11
\* segment indexes 0 .. MaxSegment, and those around the three-digit padding
MaxSegment == 2

VideoIds == {Dec(n) : n \in 0 .. MaxVideoId}
SegmentIndexes == (0 .. MaxSegment) \cup {10, 99, 100, 999, 1000}
AudioFormats ==
    {<<"w", "a", "v">>, <<"m", "p", "3">>, <<"1", ".", "w", "a", "v">>}
Filenames ==
    {<<"a", ".", "m", "p", "4">>, <<"a", ".", "m", "p">>,
     <<"1", "/", "a", ".", "m", "p", "4">>}
\* <<user_id, project_id>>
Owners == {<<1, 2>>, <<12, 1>>}

Categories == {"video", "audio", "thumbnail", "split", "subtitle", "asr"}

\* the identity of an artifact of a category: what its generator takes
\* besides the owner
Identities(c) ==
    CASE c = "video" -> {<<f>> : f \in Filenames}
      [] c = "audio" -> VideoIds \X AudioFormats
      [] c = "split" -> VideoIds \X SegmentIndexes
      [] OTHER -> {<<v>> : v \in VideoIds}

\* the generator of the category c, lines 212-234
KeyOf(c, owner, id) ==
    CASE c = "video" -> generate_object_name(owner[1], owner[2], id[1])
      [] c = "audio" ->
            generate_audio_object_name(owner[1], owner[2], id[1], id[2])
      [] c = "thumbnail" ->
            generate_thumbnail_object_name(owner[1], owner[2], id[1])
      [] c = "split" ->
            generate_split_audio_object_name(owner[1], owner[2], id[1], id[2])
      [] c = "subtitle" -> generate_srt_object_name(owner[1], owner[2], id[1])
      [] c = "asr" -> generate_asr_json_object_name(owner[1], owner[2], id[1])

KeyInputs ==
    UNION {[category : {c}, owner : Owners,
            a : Identities(c), b : Identities(c)] : c \in Categories}

InitKeys ==
    /\ tasks = <<>>
    /\ ex = [e \in Execs |-> IdleExec]
    /\ faults = 0
    /\ arg \in KeyInputs
    /\ res = <<>>
    /\ store = NoStore

\* the generator of the category called for the identity a and for b
GenerateKeys ==
    /\ res = <<>>
    /\ res' = <<KeyOf(arg.category, arg.owner, arg.a),
                KeyOf(arg.category, arg.owner, arg.b)>>
    /\ UNCHANGED <<tasks, ex, faults, arg, store>>

NextKeys == GenerateKeys

SpecKeys == InitKeys /\ [][NextKeys]_vars

\* -------------------------------------------------------------- SpecStore
\* the storage service's calls against one backend.

\* objects the bucket may hold
MaxObjects == 2

StoreKeys == {generate_srt_object_name(7, 3, Dec(v)) : v \in 1 .. MaxObjects}

\* an exception the backend may answer any call with: its error response to
\* bad credentials, or no answer at all
BackendFailures == {"AccessDenied"} \cup TransportErrors

\* what stat_object answers for the key
StatReplies(st, key) ==
    {IF ~st.bucket THEN "NoSuchBucket"
     ELSE IF key \in st.objects THEN "ok" ELSE "NoSuchKey"}
    \cup BackendFailures

\* what fput_object and remove_object answer
WriteReplies(st) ==
    {IF st.bucket THEN "ok" ELSE "NoSuchBucket"} \cup BackendFailures

NoCallYet == [op |-> "none", key |-> <<>>, replies |-> <<>>, result |-> ""]

InitStore ==
    /\ tasks = <<>>
    /\ ex = [e \in Execs |-> IdleExec]
    /\ faults = 0
    /\ arg = <<>>
    /\ res = NoCallYet
    /\ store = NoStore

\* ensure_bucket_exists(), lines 27-66
EnsureBucketExists ==
    /\ \E r_exists \in {IF store.bucket THEN PyTrue ELSE PyFalse}
                          \cup BackendFailures,
          r_make \in {"ok"} \cup BackendFailures,
          r_policy \in {"ok"} \cup BackendFailures :
            \E out \in {ensure_bucket_exists(store, r_exists, r_make, r_policy)} :
                /\ store' = out[1]
                /\ res' = [op |-> "ensure_bucket_exists", key |-> <<>>,
                           replies |-> out[3], result |-> out[2]]
    /\ UNCHANGED <<tasks, ex, faults, arg>>

\* file_exists(object_name), lines 199-210
FileExists ==
    /\ \E key \in StoreKeys :
         \E reply \in StatReplies(store, key) :
            res' = [op |-> "file_exists", key |-> key,
                    replies |-> <<reply>>, result |-> file_exists(reply)]
    /\ UNCHANGED <<tasks, ex, faults, arg, store>>

\* upload_file(file_path, object_name), lines 68-90
UploadFile ==
    /\ \E key \in StoreKeys :
         \E reply \in WriteReplies(store) :
            \E out \in {upload_file(store, key, reply)} :
                /\ store' = out[1]
                /\ res' = [op |-> "upload_file", key |-> key,
                           replies |-> <<reply>>, result |-> out[2]]
    /\ UNCHANGED <<tasks, ex, faults, arg>>

\* delete_file(object_name), lines 185-197
DeleteFile ==
    /\ \E key \in StoreKeys :
         \E reply \in WriteReplies(store) :
            \E out \in {delete_file(store, key, reply)} :
                /\ store' = out[1]
                /\ res' = [op |-> "delete_file", key |-> key,
                           replies |-> <<reply>>, result |-> out[2]]
    /\ UNCHANGED <<tasks, ex, faults, arg>>

NextStore ==
    \/ EnsureBucketExists
    \/ FileExists
    \/ UploadFile
    \/ DeleteFile

SpecStore == InitStore /\ [][NextStore]_vars


\* ------------------------------------------------------------------ claims

\* ids a job's rows are kept under (None is no id)
RowIds == JobIds \cup {UnknownId}

Ended(e) == ex[e].pc \in {"returned", "raised"}

Terminal(status) == status \in {SUCCESS, FAILURE}

C2_TerminalStatusIsFinal ==
    [][\A i \in 1 .. Len(tasks) :
          Terminal(tasks[i].status) => tasks'[i].status = tasks[i].status]_vars

\* C3 (as claimed, for executions that track their status and behaviours with
\* no store fault): when an execution ends, the row of its job id is SUCCESS
\* or FAILURE
C3_EndsTerminal ==
    [][\A e \in Execs :
          (/\ ~Ended(e)
           /\ ex'[e].pc \in {"returned", "raised"}
           /\ ex[e].create_processing_task
           /\ faults = 0)
          => /\ RowsOf(tasks', ex[e].celery_task_id) # {}
             /\ \A i \in RowsOf(tasks', ex[e].celery_task_id) :
                   Terminal(tasks'[i].status)]_vars

\* C4: once a step has raised, the handler calls _update_task_status with
\* FAILURE, 0 and "<kind>: <message>" of that error, the execution ends by
\* raising that same "<kind>: <message>" whatever became of the status
\* write, and it never returns a result
C4_FailureReportedAndReraised ==
    \A e \in Execs :
        /\ ex[e].err # NoErr =>
              /\ ex[e].pc \in {"failure_handler", "raised"}
              /\ ex[e].result = ""
              /\ ex[e].log[Len(ex[e].log)] =
                    [id |-> ex[e].request_id, status |-> FAILURE, progress |-> 0,
                     message |-> ex[e].err.kind \o ": " \o ex[e].err.msg]
        /\ ex[e].pc = "raised" =>
              /\ ex[e].err # NoErr
              /\ ex[e].raised = ex[e].err.kind \o ": " \o ex[e].err.msg
        /\ ex[e].pc = "returned" => ex[e].err = NoErr /\ ex[e].raised = ""

\* C4 witness: the engine timed out, the FAILURE write failed (the only
\* execution's row is still RUNNING), and the timeout is what was raised
C4_Witness ==
    /\ ex[1].pc = "raised"
    /\ ex[1].raised = "TimeoutError: timeout"
    /\ ex[1].create_processing_task
    /\ ex[1].request_id # None
    /\ \A e \in Execs \ {1} : ex[e].pc = "idle"
    /\ faults = 1
    /\ \E i \in RowsOf(tasks, ex[1].request_id) : tasks[i].status = RUNNING

\* C9: a call of _update_task_status made with create_processing_task False
\* does one thing, return: the table is left as it was, whatever the
\* arguments and the table
C9_SubTaskUpdateIsNoOp ==
    [][\A e \in Execs :
          (/\ ~ex[e].create_processing_task
           /\ ex[e].phase \notin {"none", "done"}
           /\ ex'[e] # ex[e])
          => /\ tasks' = tasks
             /\ ex'[e] = [ex[e] EXCEPT !.phase = "done"]]_vars

\* C9 witness: a sub-task's call has returned while the table holds a row
C9_Witness ==
    \E e \in Execs :
        /\ ~ex[e].create_processing_task
        /\ ex[e].pc = "failure_handler" /\ ex[e].phase = "done"
        /\ tasks # <<>>

\* C10: an execution whose resolution found no location reports FAILURE/0
\* with the no-audio message under its job id, asks for no signed URL,
\* downloads nothing, never invokes the engine, and ends by raising the
\* no-audio error; the report, when it reaches the row, leaves it FAILURE/0
C10_NoAudioStopsHard ==
    /\ [](\A e \in Execs :
            (ex[e].resolved /\ ex[e].audio_info = NoStr) =>
                /\ ~ex[e].url_requested /\ ~ex[e].downloaded
                /\ ~ex[e].engine_invoked /\ ~ex[e].temp_dir
                /\ ex[e].pc \in {"failure_noaudio", "failure_handler", "raised"}
                /\ ex[e].log[2] = [id |-> ex[e].celery_task_id, status |-> FAILURE,
                                   progress |-> 0, message |-> MsgNoAudio]
                /\ ex[e].pc # "failure_noaudio" =>
                      ex[e].err = [kind |-> "Exception", msg |-> MsgNoAudio]
                /\ ex[e].pc = "raised" =>
                      ex[e].raised = "Exception: " \o MsgNoAudio)
    /\ [][\A e \in Execs :
            (/\ ex[e].pc = "failure_noaudio"
             /\ ex[e].phase = "update" /\ ex'[e].phase = "done"
             /\ faults' = faults
             /\ RowsOf(tasks, ex[e].celery_task_id) # {})
            => LET i == FirstRow(tasks', ex[e].celery_task_id)
               IN tasks'[i].status = FAILURE /\ tasks'[i].progress = 0]_vars

\* C10 witness: the execution has raised the no-audio error, its row is
\* FAILURE/0, and nothing was fetched or transcribed
C10_Witness ==
    \E e \in Execs :
        /\ ex[e].pc = "raised"
        /\ ex[e].resolved /\ ex[e].audio_info = NoStr
        /\ ex[e].raised = "Exception: " \o MsgNoAudio
        /\ ~ex[e].url_requested /\ ~ex[e].engine_invoked
        /\ \E i \in RowsOf(tasks, ex[e].celery_task_id) :
              tasks[i].status = FAILURE /\ tasks[i].progress = 0

\* the location the metadata of an existing video records, NoStr for none
C5_MetadataLocation(db) ==
    IF /\ db.video
       /\ ~db.processing_metadata.isNone
       /\ \E it \in db.processing_metadata.items :
             it[1] = "audio_path" /\ it[2] # <<>>
    THEN (CHOOSE it \in db.processing_metadata.items : it[1] = "audio_path")[2]
    ELSE NoStr

\* the SUCCESS audio-extraction tasks of the video completed last
C5_LatestExtractions(db) ==
    LET mine == {t \in db.tasks : t.video_id = VideoId
                                   /\ t.task_type = EXTRACT_AUDIO
                                   /\ t.status = SUCCESS}
    IN {t \in mine : \A u \in mine : u.completed_at <= t.completed_at}

\* the output location a task row records, NoStr for none
C5_RecordedLocation(t) ==
    IF /\ ~t.output_data.isNone
       /\ \E it \in t.output_data.items : it[1] = "minio_path" /\ it[2] # <<>>
    THEN (CHOOSE it \in t.output_data.items : it[1] = "minio_path")[2]
    ELSE NoStr

\* the tiered fallback: the metadata's location, else that of a task
\* completed last, else none
C5_Tiered(db, out) ==
    IF C5_MetadataLocation(db) # NoStr THEN out = C5_MetadataLocation(db)
    ELSE IF C5_LatestExtractions(db) = {} THEN out = NoStr
    ELSE \E t \in C5_LatestExtractions(db) : out = C5_RecordedLocation(t)

\* C5 (as claimed): for every video record, metadata and prior tasks the
\* result is the metadata's audio_path if present, otherwise the recorded
\* location of the SUCCESS audio-extraction task completed last, and none only
\* if neither tier yields one
C5_TieredFallback ==
    Len(res) = 1 => C5_Tiered(arg, res[1])

\* C5 (amended): with no video record the result is none whatever the tasks
\* hold; with a video record it is the tiered fallback
C5_TieredFallbackOfExistingVideo ==
    Len(res) = 1 =>
        IF arg.video THEN C5_Tiered(arg, res[1]) ELSE res[1] = NoStr

\* C5 witness: no metadata location, two SUCCESS extractions completed at
\* different times with different locations, and the later one's is returned
C5_Witness ==
    /\ Len(res) = 1
    /\ arg.video
    /\ C5_MetadataLocation(arg) = NoStr
    /\ \E t, u \in arg.tasks :
          /\ t \in C5_LatestExtractions(arg)
          /\ u.video_id = VideoId /\ u.task_type = EXTRACT_AUDIO
          /\ u.status = SUCCESS /\ u.completed_at < t.completed_at
          /\ C5_RecordedLocation(u) # NoStr
          /\ C5_RecordedLocation(t) # C5_RecordedLocation(u)
          /\ res[1] = C5_RecordedLocation(t)
          /\ res[1] # NoStr

\* C6 (as claimed): the bucket-prefixed path, the bare key and the full URL
\* of a key k all normalise to k
C6_AllFormsYieldTheKey ==
    Len(res) = 2 => res[2] = arg

\* C7: the URL get_file_url returns has the scheme, path, params, query and
\* fragment of the URL the backend signed
C7_OnlyNetlocRewritten ==
    (Len(res) = 2 /\ res[1] # NoStr) =>
        /\ urlparse(res[2]).scheme = urlparse(res[1]).scheme
        /\ urlparse(res[2]).path = urlparse(res[1]).path
        /\ urlparse(res[2]).params = urlparse(res[1]).params
        /\ urlparse(res[2]).query = urlparse(res[1]).query
        /\ urlparse(res[2]).fragment = urlparse(res[1]).fragment
        /\ urlparse(res[2]).query = arg.query
        /\ urlparse(res[2]).path =
              <<"/">> \o minio_bucket_name \o <<"/">> \o arg.object_name

\* C7 witness: a rewrite happened (the URL returned is not the one signed)
C7_Witness ==
    /\ Len(res) = 2 /\ res[1] # NoStr
    /\ res[2] # res[1]
    /\ urlparse(res[2]).netloc # urlparse(res[1]).netloc
    /\ urlparse(res[2]).query = arg.query

\* C8 (as claimed): the signed URL's host is the configured endpoint, so the
\* URL is returned unchanged, for every endpoint
C8_NoRewriteWhenHostMatches ==
    (Len(res) = 2 /\ res[1] # NoStr
        /\ urlparse(res[1]).netloc = arg.minio_endpoint)
    => res[2] = res[1]

\* the execution e runs alone: no other delivery has started
Alone(e) == \A o \in Execs \ {e} : ex[o].pc = "idle"

\* C11 (as claimed, for a tracked execution with a job id that runs alone and
\* meets no store fault): when the execution ends by raising, its row is
\* FAILURE, the row's message is the "<kind>: <message>" of the error, and
\* the row's output_data is empty
C11_RaisedLeavesFailureNoOutput ==
    [][\A e \in Execs :
          (/\ ~Ended(e)
           /\ ex'[e].pc = "raised"
           /\ ex[e].create_processing_task
           /\ ex[e].request_id # None
           /\ faults = 0
           /\ Alone(e))
          => /\ RowsOf(tasks', ex[e].celery_task_id) # {}
             /\ \A i \in RowsOf(tasks', ex[e].celery_task_id) :
                   /\ tasks'[i].status = FAILURE
                   /\ tasks'[i].message = FormatError(ex[e].err.kind, ex[e].err.msg)
                   /\ tasks'[i].output_data = ""]_vars

\* C12: once the engine reported success, no step of the SUCCESS status
\* write (the row lookup and completion of lines 204-230, the
\* _update_task_status of line 235), failing or not, raises out of the block
\* or sets an error; and the execution then returns the computed result
\* unless update_state of line 241 raises
C12_StatusWriteFailureTolerated ==
    [][\A e \in Execs :
          /\ (ex[e].pc = "complete" /\ ex'[e] # ex[e])
                => /\ ex'[e].pc \in {"success100", "state_success"}
                   /\ ex'[e].err = NoErr
                   /\ ex'[e].result = ""
          /\ (ex[e].pc = "success100" /\ ex[e].phase # "done" /\ ex'[e] # ex[e])
                => /\ ex'[e].pc = "success100"
                   /\ ex'[e].err = NoErr
          /\ (/\ ex[e].pc \in {"success100", "state_success"}
              /\ ex[e].phase = "done"
              /\ ex'[e] # ex[e]
              /\ ex'[e].err.kind # "BackendError")
                => /\ ex'[e].pc = "returned"
                   /\ ex'[e].result = "completed"
                   /\ ex'[e].err = NoErr]_vars

\* C12 witness: the only execution returned the result although the store
\* failed in the SUCCESS write: its row is still RUNNING/70 and holds no output
C12_Witness ==
    /\ ex[1].pc = "returned" /\ ex[1].result = "completed"
    /\ ex[1].create_processing_task
    /\ Alone(1)
    /\ faults = 1
    /\ \E i \in RowsOf(tasks, ex[1].celery_task_id) :
          /\ tasks[i].status = RUNNING /\ tasks[i].progress = 70
          /\ tasks[i].output_data = ""

\* the progress values of the RUNNING reports, in call order
C13_RunningSteps == <<10, 30, 70>>

\* C13: the status calls of one execution are RUNNING/10, RUNNING/30,
\* RUNNING/70 in that order, cut short where the execution fails, followed by
\* terminal calls only; the completion of line 216 comes after all three and
\* before every terminal call; and a call is issued only when the one before
\* it is over
C13_StatusWritesInOrder ==
    /\ [](\A e \in Execs :
            /\ \A i \in 1 .. Len(ex[e].log) :
                  IF ex[e].log[i].status = RUNNING
                  THEN /\ i <= Len(C13_RunningSteps)
                       /\ ex[e].log[i].progress = C13_RunningSteps[i]
                       /\ \A j \in 1 .. (i - 1) : ex[e].log[j].status = RUNNING
                  ELSE Terminal(ex[e].log[i].status)
            /\ ex[e].pc = "complete" =>
                  /\ Len(ex[e].log) = Len(C13_RunningSteps)
                  /\ \A i \in 1 .. Len(ex[e].log) : ex[e].log[i].status = RUNNING)
    /\ [][\A e \in Execs :
            Len(ex'[e].log) # Len(ex[e].log)
                => /\ ex[e].phase \in {"none", "done"}
                   /\ Len(ex'[e].log) = Len(ex[e].log) + 1
                   /\ SubSeq(ex'[e].log, 1, Len(ex[e].log)) = ex[e].log]_vars

\* C13 witness: an execution issued 10, 30, 70, SUCCESS/100 and then, the
\* update_state of line 241 having raised, FAILURE/0
C13_Witness ==
    \E e \in Execs :
        /\ Len(ex[e].log) = 5
        /\ ex[e].log[3].status = RUNNING /\ ex[e].log[3].progress = 70
        /\ ex[e].log[4].status = SUCCESS /\ ex[e].log[4].progress = 100
        /\ ex[e].log[5].status = FAILURE /\ ex[e].log[5].progress = 0

\* C14: the scratch directory exists from its creation through the download,
\* the engine and the SUCCESS status write, and is gone once the execution
\* is in its failure handler, has raised or has returned
C14_ScratchDirRemoved ==
    \A e \in Execs :
        /\ ex[e].pc \in {"failure_handler", "raised", "returned"} => ~ex[e].temp_dir
        /\ ex[e].pc \in {"running30", "download", "running70", "complete",
                         "success100", "state_success"} => ex[e].temp_dir
        /\ ex[e].downloaded => ex[e].url_requested

\* C14 witness: an execution that downloaded the audio and invoked the engine
\* has raised, and its scratch directory is gone
C14_Witness ==
    \E e \in Execs :
        /\ ex[e].pc = "raised"
        /\ ex[e].downloaded /\ ex[e].engine_invoked
        /\ ex[e].raised = "TimeoutError: timeout"
        /\ ~ex[e].temp_dir

\* C16 (as claimed, for a tracked execution with a job id that runs alone and
\* meets no store fault): when the execution ends, by returning or by
\* raising, update_task_status_sync has completed its row exactly once:
\* started_at is set and completed_at has been written once
C16_CompletedExactlyOnce ==
    [][\A e \in Execs :
          (/\ ~Ended(e)
           /\ ex'[e].pc \in {"returned", "raised"}
           /\ ex[e].create_processing_task
           /\ ex[e].request_id # None
           /\ faults = 0
           /\ Alone(e))
          => /\ RowsOf(tasks', ex[e].celery_task_id) # {}
             /\ \A i \in RowsOf(tasks', ex[e].celery_task_id) :
                   /\ tasks'[i].started_at
                   /\ tasks'[i].completed_at = 1
                   /\ Terminal(tasks'[i].status)]_vars

\* C17 (as claimed): every status-update call of an execution is made with
\* the execution's celery_task_id (the job id, or the placeholder when there
\* is none), and none with an absent id
C17_AllWritesUnderOneId ==
    \A e \in Execs :
        \A i \in 1 .. Len(ex[e].log) :
            /\ ex[e].log[i].id = ex[e].celery_task_id
            /\ ex[e].log[i].id # None

\* C20: a lookup of _ensure_processing_task_exists that meets no store fault
\* leaves the table as it is and, a row of the id being there whatever its
\* status, returns True with nothing more done; with no row it goes on to the
\* insert, which adds one row of that id with status RUNNING, progress 0,
\* started_at set and the input data, changes no other row, and returns True
C20_EnsureInsertsOrLeaves ==
    [][\A e \in Execs :
          /\ (ex[e].phase = "lookup" /\ ex'[e] # ex[e] /\ faults' = faults)
                => /\ tasks' = tasks
                   /\ IF RowsOf(tasks, ex[e].call.id) # {}
                      THEN ex'[e].phase = "update" /\ ex'[e].ensure_ok
                      ELSE ex'[e].phase = "insert"
          /\ (/\ ex[e].phase = "insert" /\ ex'[e] # ex[e] /\ faults' = faults
              /\ RowsOf(tasks, ex[e].call.id) = {})
                => /\ Len(tasks') = Len(tasks) + 1
                   /\ SubSeq(tasks', 1, Len(tasks)) = tasks
                   /\ tasks'[Len(tasks')].celery_task_id = ex[e].call.id
                   /\ tasks'[Len(tasks')].status = RUNNING
                   /\ tasks'[Len(tasks')].progress = 0
                   /\ tasks'[Len(tasks')].started_at
                   /\ tasks'[Len(tasks')].input_data = "direct_audio"
                   /\ tasks'[Len(tasks')].completed_at = 0
                   /\ ex'[e].phase = "update" /\ ex'[e].ensure_ok]_vars

\* C20 witness: a redelivered execution's ensure call found the row of its
\* job id, which is FAILURE, and returned True with the table as it was
C20_Witness ==
    \E e \in Execs :
        /\ ex[e].pc = "running10" /\ ex[e].phase = "update" /\ ex[e].ensure_ok
        /\ faults = 0
        /\ Len(tasks) = 1
        /\ tasks[1].celery_task_id = ex[e].call.id
        /\ tasks[1].status = FAILURE
        /\ tasks[1].started_at

\* C15: for one owner and category, the keys generated for two identities
\* are equal exactly when the identities are: the same inputs give the same
\* key and distinct identities never collide
C15_KeysDeterministicAndDistinct ==
    Len(res) = 2 => (res[1] = res[2] <=> arg.a = arg.b)

\* C15 witness: two segments of one video, one index below and one above the
\* three-digit padding, got two keys
C15_Witness ==
    /\ Len(res) = 2
    /\ arg.category = "split"
    /\ arg.a[1] = arg.b[1]
    /\ arg.a[2] = 100 /\ arg.b[2] = 1000
    /\ res[1] # res[2]

\* C18 (as claimed): file_exists returns True for an object that is there,
\* False for a missing one, and raises when the backend answers with an
\* authentication failure or cannot be reached
C18_ExistsDistinguishesFailure ==
    res.op = "file_exists" =>
        /\ res.replies[1] = "ok" => res.result = PyTrue
        /\ res.replies[1] \in {"NoSuchKey", "NoSuchBucket"} => res.result = PyFalse
        /\ res.replies[1] \in BackendFailures => res.result = Raises

C21_SuccessOnlyAfterEngineSuccess ==
    /\ [](\A e \in Execs :
            /\ ex[e].engine_result # "" =>
                  /\ ex[e].engine_result \in EngineKeys
                  /\ ex[e].url_requested /\ ex[e].downloaded
                  /\ ex[e].engine_invoked
                  /\ ex[e].err.kind \in {"", "BackendError"}
            /\ ex[e].engine_invoked => ex[e].downloaded
            /\ ex[e].pc \in {"complete", "success100", "state_success", "returned"}
                  => ex[e].engine_result # "" /\ ex[e].err = NoErr)
    /\ [][\A i \in 1 .. Len(tasks') :
            (\/ i > Len(tasks) /\ tasks'[i].status = SUCCESS
             \/ i <= Len(tasks) /\ tasks'[i] # tasks[i]
                   /\ tasks'[i].status = SUCCESS
             \/ i > Len(tasks) /\ tasks'[i].output_data # ""
             \/ i <= Len(tasks) /\ tasks'[i].output_data # tasks[i].output_data)
            => \E e \in Execs :
                  /\ ex[e].pc \in {"complete", "success100"}
                  /\ ex'[e] # ex[e]
                  /\ ex[e].engine_result # ""
                  /\ ex[e].celery_task_id = tasks'[i].celery_task_id
                  /\ ex[e].pc = "complete" =>
                        tasks'[i].output_data = ex[e].engine_result
                  /\ ex[e].pc = "success100" =>
                        i <= Len(tasks)
                        /\ tasks'[i].output_data = tasks[i].output_data]_vars

\* C21 witness: the only execution returned after its row was recorded
\* SUCCESS/100 with the key its engine run returned, which is not the
\* default one
C21_Witness ==
    /\ ex[1].pc = "returned"
    /\ Alone(1)
    /\ ex[1].engine_result \in EngineKeys \ {SrtKey}
    /\ \E i \in RowsOf(tasks, ex[1].celery_task_id) :
          /\ tasks[i].status = SUCCESS /\ tasks[i].progress = 100
          /\ tasks[i].output_data = ex[1].engine_result

\* C22 (as claimed): no step of an execution run with create_processing_task
\* False changes the table
C22_SubTaskLeavesStoreUnchanged ==
    [][\A e \in Execs :
          (/\ ex[e].pc # "idle"
           /\ ~ex[e].create_processing_task
           /\ ex'[e] # ex[e])
          => tasks' = tasks]_vars

====
